---------------------------- MODULE Spec2Model ----------------------------
(***************************************************************************)
(* A model of the news pipeline of chetanaya/news-ai-agent:                *)
(*   NewsFetcher       (src/agents/news_fetcher.py)                        *)
(*   ContentScraper    (src/agents/content_scraper.py)                     *)
(*   ContentAnalyzer   (src/agents/content_analyzer.py)                    *)
(*   AgentOrchestrator (src/agents/agent_orchestrator.py)                  *)
(*   DataManager       (src/utils/database.py)                             *)
(*                                                                         *)
(* Titles and urls are sequences of one-character strings, so that         *)
(* strip(), lower() and the "title|url" key of the deduplication are       *)
(* computed as the code computes them.  A Python dict is a function on its *)
(* keys, so a key the code never set is absent from its DOMAIN.  A call    *)
(* that can raise yields Return(value) or Raise.  Polarity scores are      *)
(* counted in tenths.  Time is counted in ticks of the clock, and a        *)
(* timestamp is the pair of its format and the time it shows, so that a    *)
(* text in one format does not parse in another.  A snapshot file holds    *)
(* the rows that were written to it.                                       *)
(*                                                                         *)
(* SpecDedup, SpecFetch, SpecBatch, SpecPool, SpecAnalyze and SpecData run *)
(* one component each; Spec runs run_full_pipeline with the components it  *)
(* calls.                                                                  *)
(***************************************************************************)
EXTENDS Integers, Sequences, FiniteSets, TLC

VARIABLES
    \* NewsFetcher._deduplicate_articles, called on its own
    dd_pc, dd_in, dd_out,
    \* NewsFetcher.fetch_news_for_brand
    f_pc, f_cfg, f_brand, f_kw, f_src, f_all, f_result, f_last, f_queried,
    \* ContentScraper.scrape_multiple_articles, called on its own
    b_task, b_seen,
    \* AgentOrchestrator._scrape_articles
    s_pc, s_articles, s_max_workers, s_chunks, s_fut, s_results, s_ret,
    \* ContentAnalyzer.analyze_multiple_articles
    a_pc, a_articles, a_i, a_results, a_calls, a_seen,
    \* AgentOrchestrator.run_full_pipeline
    p_pc, p_selected, p_brands, p_i, p_by_brand, p_log, p_articles, p_handed, p_ret,
    \* DataManager: the clock, the files of the raw, processed and archive
    \* directories, and the log of the calls made on it
    d_now, d_raw, d_processed, d_archive, d_ops

ddVars == <<dd_pc, dd_in, dd_out>>
fVars == <<f_pc, f_cfg, f_brand, f_kw, f_src, f_all, f_result, f_last, f_queried>>
bVars == <<b_task, b_seen>>
sVars == <<s_pc, s_articles, s_max_workers, s_chunks, s_fut, s_results, s_ret>>
aVars == <<a_pc, a_articles, a_i, a_results, a_calls, a_seen>>
pVars == <<p_pc, p_selected, p_brands, p_i, p_by_brand, p_log, p_articles, p_handed, p_ret>>
dVars == <<d_now, d_raw, d_processed, d_archive, d_ops>>
vars == <<ddVars, fVars, bVars, sVars, aVars, pVars, dVars>>

\* the outcome of a call: a returned value, or an exception that propagates
Return(v) == [raised |-> FALSE, value |-> v]
Raise == [raised |-> TRUE, value |-> <<>>]

\* a Python dict is a function from its keys: d[key] = value, d.get(key, default)
SetKey(d, key, value) ==
    [k \in DOMAIN d \cup {key} |-> IF k = key THEN value ELSE d[k]]
Get(d, key, default) == IF key \in DOMAIN d THEN d[key] ELSE default
\* several assignments d[key] = value at once
update(d, other) ==
    [k \in DOMAIN d \cup DOMAIN other |-> IF k \in DOMAIN other THEN other[k] ELSE d[k]]

(***************************************************************************)
(* Text                                                                    *)
(***************************************************************************)
IsSpace(c) == c = " "

\* str.lower() of one character of the model's alphabet
LowerChar(c) ==
    CASE c = "A" -> "a"
      [] c = "B" -> "b"
      [] c = "U" -> "u"
      [] OTHER -> c

lower(s) == [i \in 1..Len(s) |-> LowerChar(s[i])]

RECURSIVE lstrip(_)
lstrip(s) == IF s # <<>> /\ IsSpace(Head(s)) THEN lstrip(Tail(s)) ELSE s

RECURSIVE rstrip(_)
rstrip(s) ==
    IF s # <<>> /\ IsSpace(s[Len(s)]) THEN rstrip(SubSeq(s, 1, Len(s) - 1)) ELSE s

strip(s) == rstrip(lstrip(s))

\* hashlib.md5(key).hexdigest(): a digest that stands for its argument.  Two
\* keys get the same digest exactly when they are the same string (MD5
\* collisions are outside the model).
md5_hexdigest(key) == <<"md5", key>>

(***************************************************************************)
(* NewsFetcher._deduplicate_articles                                       *)
(***************************************************************************)
dedup_title(article) == lower(strip(article.title))
dedup_url(article) == lower(strip(article.url))

\* f"{title}|{url}"
dedup_key(title, url) == title \o <<"|">> \o url

hash_key(article) == md5_hexdigest(dedup_key(dedup_title(article), dedup_url(article)))

\* "if not title or not url: continue"
dedup_skips(article) == dedup_title(article) = <<>> \/ dedup_url(article) = <<>>

RECURSIVE dedup_loop(_, _, _, _)
dedup_loop(articles, i, seen, unique_articles) ==
    IF i > Len(articles) THEN unique_articles
    ELSE IF dedup_skips(articles[i]) THEN dedup_loop(articles, i + 1, seen, unique_articles)
    ELSE IF hash_key(articles[i]) \notin seen
         THEN dedup_loop(articles, i + 1, seen \cup {hash_key(articles[i])},
                         Append(unique_articles, articles[i]))
         ELSE dedup_loop(articles, i + 1, seen, unique_articles)

_deduplicate_articles(articles) == dedup_loop(articles, 1, {}, <<>>)

(***************************************************************************)
(* Bounds of the model                                                     *)
(***************************************************************************)
MaxRawHits == 2      \* length of the list handed to _deduplicate_articles alone
MaxKeywords == 2     \* keywords of a brand
MaxCap == 3          \* largest configured max_articles_per_brand
MaxBatch == 3        \* articles of a batch scraped on its own
MaxArticles == 7     \* articles handed to _scrape_articles
MaxWorkers == 2      \* largest configured max_workers

Min(a, b) == IF a < b THEN a ELSE b
Max(a, b) == IF a > b THEN a ELSE b

SeqsUpTo(S, n) == UNION {[1..k -> S] : k \in 0..n}

(***************************************************************************)
(* _deduplicate_articles called on any list of raw hits                    *)
(***************************************************************************)
RawTitles == {<<>>, <<" ">>, <<"a">>, <<"A", " ">>, <<"b">>, <<"a", "|", "b">>}
RawUrls == {<<>>, <<"u">>, <<" ", "U">>, <<"b", "|", "u">>}
RawHits == [title : RawTitles, url : RawUrls]

DedupIdle == dd_pc = "idle" /\ dd_in = <<>> /\ dd_out = <<>>

DedupInit ==
    /\ dd_pc = "call"
    /\ dd_in \in SeqsUpTo(RawHits, MaxRawHits)
    /\ dd_out = <<>>

Deduplicate ==
    /\ dd_pc = "call"
    /\ dd_out' = _deduplicate_articles(dd_in)
    /\ dd_pc' = "done"
    /\ UNCHANGED dd_in

(***************************************************************************)
(* NewsFetcher: configuration and the network                              *)
(***************************************************************************)
\* entries of sources.yaml (news_sources): name, type, enabled
SrcGoogle(en) == [name |-> "Google News", type |-> "rss", enabled |-> en]
SrcNewsApi(en) == [name |-> "NewsAPI", type |-> "api", enabled |-> en]
SrcDuck(en) == [name |-> "DuckDuckGo", type |-> "duckduckgo", enabled |-> en]
SrcAtom(en) == [name |-> "Atom Feed", type |-> "atom", enabled |-> en]

SourceLists ==
    { <<SrcGoogle(TRUE), SrcNewsApi(TRUE), SrcDuck(TRUE)>>,
      <<SrcNewsApi(TRUE), SrcAtom(TRUE), SrcGoogle(TRUE)>>,
      <<SrcGoogle(FALSE), SrcDuck(TRUE), SrcNewsApi(TRUE)>> }

\* sources_config / agent_config as read by NewsFetcher.__init__, and whether
\* the duckduckgo_search import succeeded (DDGS_AVAILABLE)
FetchConfigs ==
    [ news_sources : SourceLists,
      default_search_engine : {"Google News", "DuckDuckGo"},
      max_articles : 1..MaxCap,
      ddgs_available : BOOLEAN ]

\* what a source answers to one query: the entries of the feed or of the
\* JSON body, an HTTP error status, or an exception of the client library
E_a == [title |-> <<"a">>, url |-> <<"u">>]
E_A == [title |-> <<"A", " ">>, url |-> <<" ", "U">>]
E_b == [title |-> <<"b">>, url |-> <<"u">>]
E_c == [title |-> <<"a", "b">>, url |-> <<"u">>]
E_nourl == [title |-> <<"b">>, url |-> <<" ">>]
EntryLists == {<<>>, <<E_a>>, <<E_A, E_b>>, <<E_c, E_nourl>>}
NetFailures == {"exception", "http_error"}
NetAnswers ==
    {[status |-> st, entries |-> <<>>] : st \in NetFailures}
        \cup {[status |-> "ok", entries |-> l] : l \in EntryLists}

KeywordPool == <<"acme", "acme inc", "acme corp", "acme news">>
KeywordLists == {SubSeq(KeywordPool, 1, n) : n \in 0..MaxKeywords}

\* an entry of brands.yaml; has_keywords is FALSE when the 'keywords' key is
\* missing from it
FetchBrands ==
    {[name |-> "Acme", has_keywords |-> TRUE, keywords |-> l] : l \in KeywordLists}
        \cup {[name |-> "Acme", has_keywords |-> FALSE, keywords |-> <<>>]}

\* the article dict built from one entry (title, url, source, source_type)
make_article(entry, source) ==
    [title |-> entry.title, url |-> entry.url,
     source |-> source.name, source_type |-> source.type]

make_articles(entries, source) ==
    [i \in 1..Len(entries) |-> make_article(entries[i], source)]

\* _fetch_from_rss: feedparser.parse answers an HTTP error with no entries
_fetch_from_rss(source, net) ==
    IF net.status = "exception" THEN Raise
    ELSE IF net.status = "http_error" THEN Return(<<>>)
    ELSE Return(make_articles(net.entries, source))

\* _fetch_from_api: a status other than 200 returns []
_fetch_from_api(source, net) ==
    IF net.status = "exception" THEN Raise
    ELSE IF net.status = "http_error" THEN Return(<<>>)
    ELSE Return(make_articles(net.entries, source))

\* _fetch_from_duckduckgo: catches every exception itself and returns []
_fetch_from_duckduckgo(source, net, ddgs_available) ==
    IF ~ddgs_available THEN Return(<<>>)
    ELSE IF net.status \in NetFailures THEN Return(<<>>)
    ELSE Return(make_articles(net.entries, source))

_fetch_from_source(source, net, ddgs_available) ==
    CASE source.type = "rss" -> _fetch_from_rss(source, net)
      [] source.type = "api" -> _fetch_from_api(source, net)
      [] source.type = "duckduckgo" -> _fetch_from_duckduckgo(source, net, ddgs_available)
      [] OTHER -> Return(<<>>)

(***************************************************************************)
(* NewsFetcher.fetch_news_for_brand                                        *)
(***************************************************************************)
\* next((src for src in news_sources if name == default and enabled), None):
\* the index of the default source, 0 for None
RECURSIVE default_source_from(_, _)
default_source_from(cfg, i) ==
    IF i > Len(cfg.news_sources) THEN 0
    ELSE IF cfg.news_sources[i].name = cfg.default_search_engine
            /\ cfg.news_sources[i].enabled
         THEN i
         ELSE default_source_from(cfg, i + 1)

default_source(cfg) == default_source_from(cfg, 1)

\* "if source.get('name') == self.default_search_engine or not enabled: continue"
other_source_skipped(cfg, source) ==
    source.name = cfg.default_search_engine \/ ~source.enabled

\* "if len(all_articles) < self.max_articles" after the default source
try_other_sources(cfg, all_articles) == Len(all_articles) < cfg.max_articles

\* "if len(all_articles) >= self.max_articles: break" in the loop
enough_articles(cfg, all_articles) == Len(all_articles) >= cfg.max_articles

\* a fetch that forgets the slice
limit_articles_unsliced(unique_articles, max_articles) == unique_articles

\* unique_articles[:self.max_articles]
limit_articles(unique_articles, max_articles) ==
    SubSeq(unique_articles, 1, Min(max_articles, Len(unique_articles)))

NoQuery == [kw |-> 0, src |-> 0, failed |-> FALSE, got |-> 0]

NoConfig ==
    [news_sources |-> <<>>, default_search_engine |-> "", max_articles |-> 0,
     ddgs_available |-> FALSE]
NoBrand == [name |-> "", has_keywords |-> FALSE, keywords |-> <<>>]

FetchIdle ==
    /\ f_pc = "idle" /\ f_cfg = NoConfig /\ f_brand = NoBrand /\ f_kw = 0
    /\ f_src = 0 /\ f_all = <<>> /\ f_result = Return(<<>>) /\ f_last = NoQuery
    /\ f_queried = {}

\* a call fetch_news_for_brand(brand)
FetchInit ==
    /\ f_pc = "start"
    /\ f_cfg \in FetchConfigs
    /\ f_brand \in FetchBrands
    /\ f_kw = 0 /\ f_src = 0 /\ f_all = <<>> /\ f_result = Return(<<>>)
    /\ f_last = NoQuery /\ f_queried = {}

\* the position after the body of "for keyword in brand['keywords']" ends
NextKeyword ==
    /\ f_kw' = f_kw + 1
    /\ f_src' = 0
    /\ f_pc' = IF f_kw + 1 > Len(f_brand.keywords) THEN "dedup" ELSE "default"

\* lines 55-62: brand['keywords'] raises KeyError when the key is missing
FetchStart ==
    /\ f_pc = "start"
    /\ IF ~f_brand.has_keywords
       THEN /\ f_pc' = "raised" /\ f_result' = Raise
            /\ UNCHANGED <<f_kw, f_src>>
       ELSE /\ f_kw' = 1 /\ f_src' = 0 /\ f_result' = f_result
            /\ f_pc' = IF Len(f_brand.keywords) = 0 THEN "dedup" ELSE "default"
    /\ UNCHANGED <<f_cfg, f_brand, f_all, f_last, f_queried>>

\* lines 66-96: the default search engine, when one is configured and enabled
FetchDefault(Answers) ==
    /\ f_pc = "default"
    /\ LET d == default_source(f_cfg) IN
       IF d = 0
       THEN /\ UNCHANGED <<f_all, f_last, f_queried>>
            /\ IF try_other_sources(f_cfg, f_all)
               THEN f_pc' = "others" /\ f_src' = 1 /\ f_kw' = f_kw
               ELSE NextKeyword
       ELSE \E net \in Answers :
            LET articles == _fetch_from_source(f_cfg.news_sources[d], net,
                                               f_cfg.ddgs_available)
                all_articles == IF articles.raised THEN f_all
                                ELSE f_all \o articles.value
            IN /\ f_all' = all_articles
               /\ f_last' = [kw |-> f_kw, src |-> d, failed |-> net.status \in NetFailures,
                             got |-> Len(all_articles) - Len(f_all)]
               /\ f_queried' = f_queried \cup {<<f_kw, d>>}
               /\ IF try_other_sources(f_cfg, all_articles)
                  THEN f_pc' = "others" /\ f_src' = 1 /\ f_kw' = f_kw
                  ELSE NextKeyword
    /\ UNCHANGED <<f_cfg, f_brand, f_result>>

\* lines 98-101: the loop over the other sources skips one, or is exhausted
FetchOtherSkip ==
    /\ f_pc = "others"
    /\ IF f_src > Len(f_cfg.news_sources)
       THEN NextKeyword
       ELSE /\ other_source_skipped(f_cfg, f_cfg.news_sources[f_src])
            /\ f_src' = f_src + 1
            /\ UNCHANGED <<f_pc, f_kw>>
    /\ UNCHANGED <<f_cfg, f_brand, f_all, f_result, f_last, f_queried>>

\* a loop without the try/except: the exception leaves the function
other_source_failed_unhandled ==
    /\ f_all' = f_all
    /\ f_pc' = "raised"
    /\ UNCHANGED <<f_kw, f_src>>

\* the except branch of lines 117-119: log and go on with the next source
other_source_failed ==
    /\ f_all' = f_all
    /\ f_src' = f_src + 1
    /\ UNCHANGED <<f_pc, f_kw>>

\* lines 103-119: one other source is queried
FetchOtherQuery(Answers) ==
    /\ f_pc = "others"
    /\ f_src <= Len(f_cfg.news_sources)
    /\ ~other_source_skipped(f_cfg, f_cfg.news_sources[f_src])
    /\ \E net \in Answers :
        LET source_articles == _fetch_from_source(f_cfg.news_sources[f_src], net,
                                                  f_cfg.ddgs_available)
        IN /\ f_last' = [kw |-> f_kw, src |-> f_src, failed |-> net.status \in NetFailures,
                         got |-> IF source_articles.raised THEN 0
                                 ELSE Len(source_articles.value)]
           /\ f_queried' = f_queried \cup {<<f_kw, f_src>>}
           /\ IF source_articles.raised
              THEN other_source_failed
              ELSE /\ f_all' = f_all \o source_articles.value
                   /\ IF enough_articles(f_cfg, f_all \o source_articles.value)
                      THEN NextKeyword
                      ELSE f_src' = f_src + 1 /\ UNCHANGED <<f_pc, f_kw>>
    /\ UNCHANGED <<f_cfg, f_brand, f_result>>

\* lines 121-130: deduplicate, limit, return
FetchReturn ==
    /\ f_pc = "dedup"
    /\ f_result' = Return(limit_articles(_deduplicate_articles(f_all),
                                         f_cfg.max_articles))
    /\ f_pc' = "done"
    /\ UNCHANGED <<f_cfg, f_brand, f_kw, f_src, f_all, f_last, f_queried>>

(***************************************************************************)
(* ContentScraper.scrape_article                                           *)
(***************************************************************************)
\* page texts: what get_text() gives, and what _clean_content makes of it
RawNews == "Sales grew 10%.  Profit rose.\n"
CleanNews == "Sales grew 10%. Profit rose."
RawBlank == " \n "

\* a parsed page: the text of the largest element matched by the first
\* matching content selector ("" when no selector matches or the element is
\* empty), the joined paragraphs longer than 50 characters, the body text;
\* broken: BeautifulSoup or an extraction step raises
PageArticle == [selector_text |-> RawNews, paragraphs |-> "", body |-> RawNews, broken |-> FALSE]
PageParagraphs == [selector_text |-> "", paragraphs |-> RawNews, body |-> RawNews, broken |-> FALSE]
PageBlank == [selector_text |-> "", paragraphs |-> "", body |-> RawBlank, broken |-> FALSE]
PageBroken == [selector_text |-> "", paragraphs |-> "", body |-> "", broken |-> TRUE]
Pages == {PageArticle, PageParagraphs, PageBlank, PageBroken}

\* what requests.get gives for one URL
WebException == [kind |-> "exception", status |-> 0, page |-> PageBroken]
WebStatus(code, page) == [kind |-> "response", status |-> code, page |-> page]
WebAnswers ==
    {WebException, WebStatus(500, PageBlank), WebStatus(404, PageBlank)}
        \cup {WebStatus(200, page) : page \in Pages}

_extract_article_content(page) == page.selector_text

_extract_fallback_content(page) ==
    IF page.paragraphs # "" THEN page.paragraphs ELSE page.body

_clean_content(content) ==
    CASE content = RawNews -> CleanNews
      [] content = RawBlank -> ""
      [] OTHER -> content

scrape_failed(article) ==
    SetKey(SetKey(article, "content", ""), "scrape_success", FALSE)

\* a scraper that takes any answer for a page
scrape_article_ignoring_status(article, web) ==
    IF Get(article, "url", <<>>) = <<>> THEN scrape_failed(article)
    ELSE IF web.kind = "exception" \/ web.page.broken THEN scrape_failed(article)
    ELSE SetKey(SetKey(article, "content", _clean_content(web.page.body)),
                "scrape_success", TRUE)

scrape_article(article, web) ==
    IF Get(article, "url", <<>>) = <<>> THEN scrape_failed(article)
    ELSE IF web.kind = "exception" THEN scrape_failed(article)
    ELSE IF web.status # 200 THEN scrape_failed(article)
    ELSE IF web.page.broken THEN scrape_failed(article)
    ELSE LET content == IF _extract_article_content(web.page) # ""
                        THEN _extract_article_content(web.page)
                        ELSE _extract_fallback_content(web.page)
         IN SetKey(SetKey(article, "content", _clean_content(content)),
                   "scrape_success", TRUE)

(***************************************************************************)
(* ContentScraper.scrape_multiple_articles                                 *)
(***************************************************************************)
\* the state of one call: the loop index, the results so far, and whether an
\* exception left the loop
new_task(articles) ==
    [articles |-> articles, i |-> 1, results |-> <<>>, state |-> "running"]

NoTask == [articles |-> <<>>, i |-> 0, results |-> <<>>, state |-> "idle"]

\* one pass of "for i, article in enumerate(articles)"; fault: an exception
\* raised outside scrape_article's own try block (a MemoryError, say)
batch_step(task, web, fault) ==
    IF task.i > Len(task.articles) THEN [task EXCEPT !.state = "returned"]
    ELSE IF fault THEN [task EXCEPT !.state = "raised"]
    ELSE LET scraped_article == scrape_article(task.articles[task.i], web)
         IN [task EXCEPT !.results = Append(@, scraped_article),
                         !.i = @ + 1,
                         !.state = IF task.i = Len(task.articles)
                                   THEN "returned" ELSE "running"]

\* the whole call: answers[i] is the web's answer for articles[i], and the
\* call raises while at article fault_at (0: never)
RECURSIVE run_batch(_, _, _)
run_batch(task, answers, fault_at) ==
    IF task.state # "running" THEN task
    ELSE IF task.i > Len(task.articles) THEN [task EXCEPT !.state = "returned"]
    ELSE run_batch(batch_step(task, answers[task.i], task.i = fault_at),
                   answers, fault_at)

scrape_multiple_articles(articles, answers, fault_at) ==
    LET task == run_batch(new_task(articles), answers, fault_at)
    IN IF task.state = "raised" THEN Raise ELSE Return(task.results)

\* article metadata as the fetcher leaves it; the k-th has k letters as title
Stub(k, url) ==
    [title |-> [j \in 1..k |-> "a"], url |-> url, source |-> "Google News",
     source_type |-> "rss"]

StubLists(n) ==
    {[k \in 1..n |-> Stub(k, IF k = 1 THEN first_url ELSE <<"u">>)] :
        first_url \in {<<>>, <<"u">>}}

BatchIdle == b_task = NoTask /\ b_seen = <<>>

BatchInit ==
    /\ \E n \in 0..MaxBatch : \E articles \in StubLists(n) : b_task = new_task(articles)
    /\ b_seen = <<>>

\* the loop of scrape_multiple_articles, one article at a time
BatchStep ==
    /\ b_task.state = "running"
    /\ \E web \in WebAnswers : \E fault \in BOOLEAN :
        /\ b_task' = batch_step(b_task, web, fault)
        /\ b_seen' = IF b_task'.i > b_task.i THEN Append(b_seen, web) ELSE b_seen

(***************************************************************************)
(* AgentOrchestrator._scrape_articles                                      *)
(***************************************************************************)
\* "if len(articles) <= 5"
SerialThreshold == 5

\* the answers of the web when many articles are scraped: a server error, or
\* a page with an article on it
PoolAnswers == {WebStatus(500, PageBlank), WebStatus(200, PageArticle)}

\* max(1, len(articles) // self.max_workers)
chunk_size(n, max_workers) == Max(1, n \div max_workers)

\* a slicing whose chunks share their border article
article_chunks_overlapping(articles, size) ==
    [c \in 1..((Len(articles) + size - 1) \div size) |->
        SubSeq(articles, (c - 1) * size + 1, Min(c * size + 1, Len(articles)))]

\* [articles[i:i + chunk_size] for i in range(0, len(articles), chunk_size)]
article_chunks(articles, size) ==
    [c \in 1..((Len(articles) + size - 1) \div size) |->
        SubSeq(articles, (c - 1) * size + 1, Min(c * size, Len(articles)))]

\* a submitted task: its state, the outcome of its call, and the articles
\* (by their place in the list) that the worker running it has written
NoFuture == [state |-> "pending", outcome |-> Return(<<>>), wrote |-> {}]

\* scrape_article sets content and scrape_success on the article it is given:
\* the places of the articles that a call on the chunk has reached
articles_written(articles, chunk, fault_at) ==
    {p \in 1..Len(articles) :
        \E k \in 1..(IF fault_at = 0 THEN Len(chunk) ELSE fault_at) :
            articles[p] = chunk[k]}

\* an except branch that gives the chunk's articles back as they are
chunk_unmarked(chunk) == chunk

\* the except branch of lines 172-179: the chunk's own articles, without content
RECURSIVE chunk_without_content(_)
chunk_without_content(chunk) ==
    IF chunk = <<>> THEN <<>>
    ELSE <<scrape_failed(Head(chunk))>> \o chunk_without_content(Tail(chunk))

\* a collector that logs the error and goes on without the chunk
collect_future_dropping(results, future, chunk) ==
    IF future.outcome.raised THEN results
    ELSE results \o future.outcome.value

\* lines 168-179: what one completed future adds to results
collect_future(results, future, chunk) ==
    IF future.outcome.raised
    THEN results \o chunk_without_content(chunk)
    ELSE results \o future.outcome.value

Running == {c \in 1..Len(s_fut) : s_fut[c].state = "running"}
Pending == {c \in 1..Len(s_fut) : s_fut[c].state = "pending"}

PoolIdle ==
    /\ s_pc = "idle" /\ s_articles = <<>> /\ s_max_workers = 0 /\ s_chunks = <<>>
    /\ s_fut = <<>> /\ s_results = <<>> /\ s_ret = Return(<<>>)

\* a call _scrape_articles(articles) of an orchestrator with max_workers
PoolInit ==
    /\ s_pc = "start"
    /\ \E n \in 0..MaxArticles : s_articles \in StubLists(n)
    /\ s_max_workers \in 1..MaxWorkers
    /\ s_chunks = <<>> /\ s_fut = <<>> /\ s_results = <<>> /\ s_ret = Return(<<>>)

\* lines 149-150: a small list is scraped by the caller itself, and an
\* exception of that call leaves _scrape_articles
ScrapeSerial(Answers) ==
    /\ s_pc = "start"
    /\ Len(s_articles) <= SerialThreshold
    /\ \E answers \in [1..Len(s_articles) -> Answers] :
       \E fault_at \in {0, Len(s_articles)} :
        /\ s_ret' = scrape_multiple_articles(s_articles, answers, fault_at)
        /\ s_pc' = IF s_ret'.raised THEN "raised" ELSE "done"
    /\ UNCHANGED <<s_articles, s_max_workers, s_chunks, s_fut, s_results>>

\* lines 153-164: the chunks are cut and one task per chunk is submitted
ScrapeSubmit ==
    /\ s_pc = "start"
    /\ Len(s_articles) > SerialThreshold
    /\ s_chunks' = article_chunks(s_articles,
                                  chunk_size(Len(s_articles), s_max_workers))
    /\ s_fut' = [c \in 1..Len(s_chunks') |-> NoFuture]
    /\ s_results' = <<>>
    /\ s_pc' = "collect"
    /\ UNCHANGED <<s_articles, s_max_workers, s_ret>>

\* a free worker thread of the pool takes the oldest waiting task
WorkerStart(c) ==
    /\ s_pc = "collect"
    /\ c \in Pending
    /\ \A d \in Pending : c <= d
    /\ Cardinality(Running) < s_max_workers
    /\ s_fut' = [s_fut EXCEPT ![c].state = "running"]
    /\ UNCHANGED <<s_pc, s_articles, s_max_workers, s_chunks, s_results, s_ret>>

\* the worker's scrape_multiple_articles(chunk) returns or raises
WorkerFinish(c, Answers) ==
    /\ s_pc = "collect"
    /\ c \in Running
    /\ \E answers \in [1..Len(s_chunks[c]) -> Answers] :
       \E fault_at \in {0, Len(s_chunks[c])} :
        s_fut' = [s_fut EXCEPT ![c] =
                    [state |-> "finished",
                     outcome |-> scrape_multiple_articles(s_chunks[c], answers, fault_at),
                     wrote |-> articles_written(s_articles, s_chunks[c], fault_at)]]
    /\ UNCHANGED <<s_pc, s_articles, s_max_workers, s_chunks, s_results, s_ret>>

\* lines 167-179: as_completed hands over a finished future
Collect(c) ==
    /\ s_pc = "collect"
    /\ c \in 1..Len(s_fut)
    /\ s_fut[c].state = "finished"
    /\ s_results' = collect_future(s_results, s_fut[c], s_chunks[c])
    /\ s_fut' = [s_fut EXCEPT ![c].state = "collected"]
    /\ UNCHANGED <<s_pc, s_articles, s_max_workers, s_chunks, s_ret>>

\* a collecting loop that ends with the first future handed over
first_collected == \E c \in 1..Len(s_fut) : s_fut[c].state = "collected"

\* "for future in as_completed(future_to_chunk)" has handed over every future
all_collected == \A c \in 1..Len(s_fut) : s_fut[c].state = "collected"

\* line 181: every future has been handed over and the pool is shut down
ScrapeReturn ==
    /\ s_pc = "collect"
    /\ all_collected
    /\ s_ret' = Return(s_results)
    /\ s_pc' = "done"
    /\ UNCHANGED <<s_articles, s_max_workers, s_chunks, s_fut, s_results>>

MaxChunks == MaxArticles

(***************************************************************************)
(* ContentAnalyzer: configuration, the backend and the local libraries     *)
(***************************************************************************)
\* analysis_config.sentiment_values, with the defaults of __init__
sentiment_values ==
    [positive |-> "Positive", neutral |-> "Neutral", negative |-> "Negative"]

\* sentiment thresholds 0.1 and -0.1; polarity is counted in tenths
positive_threshold == 1
negative_threshold == -1

\* brands.yaml as the analyzer reads it
\* brands.yaml: Bolt has no vocabularies, Core has no 'keywords' key
BrandAcme ==
    [name |-> "Acme", categories |-> <<"Finance", "Products">>,
     subcategories |-> <<"Earnings">>, product_lines |-> <<"Rocket">>,
     has_keywords |-> TRUE, keywords |-> <<"acme", "acme inc">>]
BrandCore ==
    [name |-> "Core", categories |-> <<"Finance">>, subcategories |-> <<>>,
     product_lines |-> <<>>, has_keywords |-> FALSE, keywords |-> <<>>]
BrandBolt ==
    [name |-> "Bolt", categories |-> <<>>, subcategories |-> <<>>,
     product_lines |-> <<>>, has_keywords |-> TRUE, keywords |-> <<"bolt", "bolt ev">>]
brands_config == <<BrandAcme, BrandCore, BrandBolt>>

Range(seq) == {seq[i] : i \in 1..Len(seq)}

\* a call of self.llm.invoke that raises
LlmError == "<error>"

\* result.content.strip() of the answers the backend gives in the model
strip_answer(text) ==
    CASE text = " Acme reports growth. " -> "Acme reports growth."
      [] text = "Finance\n" -> "Finance"
      [] OTHER -> text

\* answer.lower() of the answers the backend gives in the model
lower_answer(text) ==
    CASE text = "Yes, it is" -> "yes, it is"
      [] text = "No" -> "no"
      [] text = "Positive" -> "positive"
      [] text = "Mixed" -> "mixed"
      [] text = "None" -> "none"
      [] OTHER -> text

\* "yes" in answer
contains_yes(answer) == answer \in {"yes", "yes, it is"}

\* everything outside the analyzer that one analyze_article call meets: the
\* backend's answer to each prompt (or LlmError), the polarity in tenths of
\* TextBlob(content).sentiment (or an exception of TextBlob), and whether
\* nltk.sent_tokenize raises (its tokenizer data is missing)
AnalysisEnvs ==
    [ summary : {LlmError, " Acme reports growth. "},
      topic : {LlmError, "Finance\n", "finance"},
      subcategory : {LlmError, "Earnings", "Gossip"},
      product_line : {LlmError, "Rocket", "None"},
      relevancy : {LlmError, "Yes, it is", "No"},
      sentiment : {LlmError, "Positive", "negative", "Mixed"},
      textblob : {[raised |-> TRUE, polarity |-> 0]}
                     \cup {[raised |-> FALSE, polarity |-> p] : p \in {-1, 0, 1}},
      sent_tokenize_raises : BOOLEAN ]

BackendDown(env) ==
    /\ env.summary = LlmError /\ env.topic = LlmError
    /\ env.subcategory = LlmError /\ env.product_line = LlmError
    /\ env.relevancy = LlmError /\ env.sentiment = LlmError

\* contents with more than three sentences, and what the fallback summary
\* makes of a content
LongNews == "Sales grew. Profit rose. Costs fell. Shares jumped."

sent_tokenize(content) ==
    CASE content = CleanNews -> <<"Sales grew 10%.", "Profit rose.">>
      [] content = LongNews -> <<"Sales grew.", "Profit rose.", "Costs fell.", "Shares jumped.">>
      [] OTHER -> <<content>>

\* " ".join(sentences[:3])
join_first_three(content) ==
    CASE content = LongNews -> "Sales grew. Profit rose. Costs fell."
      [] OTHER -> content

\* content[:300] + "..."
first_300_and_dots(content) ==
    CASE content = CleanNews -> "Sales grew 10%. Profit rose...."
      [] content = LongNews -> "Sales grew. Profit rose. Costs fell. Shares jumped...."
      [] OTHER -> "..."

\* the outcome of a helper: its value (or an exception) and the number of
\* calls it made to the backend
Done(value, calls) == [raised |-> FALSE, value |-> value, calls |-> calls]
Failed(value, calls) == [raised |-> TRUE, value |-> value, calls |-> calls]

(***************************************************************************)
(* ContentAnalyzer: the helpers of analyze_article                         *)
(***************************************************************************)
_generate_summary(content, env) ==
    IF env.summary # LlmError THEN Done(strip_answer(env.summary), 1)
    ELSE IF env.sent_tokenize_raises THEN Failed("", 1)
    ELSE IF Len(sent_tokenize(content)) > 3 THEN Done(join_first_three(content), 1)
    ELSE Done(first_300_and_dots(content), 1)

_analyze_sentiment_textblob(content, env) ==
    IF env.textblob.raised THEN Failed(<<"", 0>>, 0)
    ELSE IF env.textblob.polarity >= positive_threshold
         THEN Done(<<sentiment_values.positive, env.textblob.polarity>>, 0)
    ELSE IF env.textblob.polarity <= negative_threshold
         THEN Done(<<sentiment_values.negative, env.textblob.polarity>>, 0)
    ELSE Done(<<sentiment_values.neutral, env.textblob.polarity>>, 0)

_analyze_sentiment(content, brand_name, env) ==
    LET textblob == _analyze_sentiment_textblob(content, env)
        sentiment_text == strip_answer(env.sentiment)
        sentiment ==
            IF lower_answer(sentiment_text) = "positive" THEN sentiment_values.positive
            ELSE IF lower_answer(sentiment_text) = "negative" THEN sentiment_values.negative
            ELSE sentiment_values.neutral
    IN IF textblob.raised THEN Failed(<<"", 0>>, 1)
       ELSE IF env.sentiment = LlmError THEN Done(textblob.value, 1)
       ELSE Done(<<sentiment, textblob.value[2]>>, 1)

\* a classifier that takes the backend's answer as it comes
_classify_topic_unverified(content, categories, env) ==
    IF content = "" \/ categories = <<>> THEN Done("Others", 0)
    ELSE IF env.topic = LlmError THEN Done("Others", 1)
    ELSE Done(strip_answer(env.topic), 1)

_classify_topic(content, categories, env) ==
    IF content = "" \/ categories = <<>> THEN Done("Others", 0)
    ELSE IF env.topic = LlmError THEN Done("Others", 1)
    ELSE IF strip_answer(env.topic) \in Range(categories)
         THEN Done(strip_answer(env.topic), 1)
    ELSE Done("Others", 1)

_classify_subcategory(content, subcategories, env) ==
    IF content = "" \/ subcategories = <<>> THEN Done("Others", 0)
    ELSE IF env.subcategory = LlmError THEN Done("Others", 1)
    ELSE IF strip_answer(env.subcategory) \in Range(subcategories)
         THEN Done(strip_answer(env.subcategory), 1)
    ELSE Done("Others", 1)

_identify_product_line(content, product_lines, env) ==
    IF content = "" \/ product_lines = <<>> THEN Done("None", 0)
    ELSE IF env.product_line = LlmError THEN Done("None", 1)
    ELSE IF strip_answer(env.product_line) \in Range(product_lines)
         THEN Done(strip_answer(env.product_line), 1)
    ELSE Done("None", 1)

_check_relevancy(content, brand_name, env) ==
    IF content = "" \/ brand_name = "" THEN Done(FALSE, 0)
    ELSE IF env.relevancy = LlmError THEN Done(FALSE, 1)
    ELSE Done(contains_yes(lower_answer(strip_answer(env.relevancy))), 1)

(***************************************************************************)
(* ContentAnalyzer.analyze_article and analyze_multiple_articles           *)
(***************************************************************************)
\* the guard of analyze_article
article_not_analyzable_content_only(article) == Get(article, "content", "") = ""

article_not_analyzable(article) ==
    Get(article, "content", "") = "" \/ ~Get(article, "scrape_success", FALSE)

\* "Add empty analysis fields"
no_content_analysis(article) ==
    update(article,
           [summary |-> "", topic |-> "Others", subcategory |-> "Others",
            product_line |-> "None", is_relevant |-> FALSE,
            sentiment |-> sentiment_values.neutral, polarity_score |-> 0])

\* the index in brands_config of the first brand of that name; 0 is None
find_brand(brand_name) ==
    LET matches == {i \in 1..Len(brands_config) : brands_config[i].name = brand_name}
    IN IF matches = {} THEN 0 ELSE CHOOSE i \in matches : \A j \in matches : i <= j

\* "Default values if brand info not found"
unknown_brand_classification ==
    [topic |-> "Others", subcategory |-> "Others", product_line |-> "None",
     is_relevant |-> FALSE]

\* "Fall back to basic analysis"
basic_analysis(article, sentiment, polarity) ==
    update(article,
           [summary |-> "", topic |-> "Others", subcategory |-> "Others",
            product_line |-> "None", is_relevant |-> FALSE,
            sentiment |-> sentiment, polarity_score |-> polarity])

\* the try block of analyze_article; a raise carries the article as the
\* block had changed it by then
analyze_article_try(article, env) ==
    LET content == Get(article, "content", "")
        brand_name == Get(article, "brand", "")
        brand_info == find_brand(brand_name)
        categories == IF brand_info # 0 THEN brands_config[brand_info].categories ELSE <<>>
        subcategories == IF brand_info # 0 THEN brands_config[brand_info].subcategories ELSE <<>>
        product_lines == IF brand_info # 0 THEN brands_config[brand_info].product_lines ELSE <<>>
        summary == _generate_summary(content, env)
        topic == _classify_topic(content, categories, env)
        subcategory == _classify_subcategory(content, subcategories, env)
        product_line == _identify_product_line(content, product_lines, env)
        is_relevant == _check_relevancy(content, brand_name, env)
        sentiment == _analyze_sentiment(content, brand_name, env)
        textblob == _analyze_sentiment_textblob(content, env)
        with_summary == SetKey(article, "summary", summary.value)
        classified ==
            update(with_summary,
                   [topic |-> topic.value, subcategory |-> subcategory.value,
                    product_line |-> product_line.value,
                    is_relevant |-> is_relevant.value])
        calls == summary.calls + topic.calls + subcategory.calls
                     + product_line.calls + is_relevant.calls + sentiment.calls
    IN IF summary.raised THEN Failed(article, summary.calls)
       ELSE IF brand_info # 0 THEN
            IF sentiment.raised THEN Failed(classified, calls)
            ELSE Done(update(classified,
                             [sentiment |-> sentiment.value[1],
                              polarity_score |-> sentiment.value[2],
                              analysis_timestamp |-> "now"]), calls)
       ELSE IF textblob.raised
            THEN Failed(update(with_summary, unknown_brand_classification),
                        summary.calls)
       ELSE Done(update(update(with_summary, unknown_brand_classification),
                        [sentiment |-> textblob.value[1],
                         polarity_score |-> textblob.value[2],
                         analysis_timestamp |-> "now"]), summary.calls)

analyze_article(article, env) ==
    LET tried == analyze_article_try(article, env)
        textblob == _analyze_sentiment_textblob(Get(article, "content", ""), env)
    IN IF article_not_analyzable(article) THEN Done(no_content_analysis(article), 0)
       ELSE IF ~tried.raised THEN tried
       ELSE IF textblob.raised THEN Failed(tried.value, tried.calls)
       ELSE Done(basic_analysis(tried.value, textblob.value[1], textblob.value[2]),
                 tried.calls)

\* the except branch of the loop of analyze_multiple_articles
analysis_failed(article) ==
    update(article,
           [summary |-> "", topic |-> "Others", subcategory |-> "Others",
            product_line |-> "None", is_relevant |-> FALSE,
            sentiment |-> sentiment_values.neutral, polarity_score |-> 0,
            analysis_error |-> "str(e)"])

\* articles as they reach the analyzer: with and without content, scraped or
\* not, of a configured brand or not, and with one of the three keys missing
ScrapedStub(content, success, brand) ==
    update(Stub(1, <<"u">>),
           [content |-> content, scrape_success |-> success, brand |-> brand])
AnalyzeInputs ==
    {ScrapedStub(c, ok, b) : c \in {"", CleanNews, LongNews}, ok \in BOOLEAN,
                             b \in {"Acme", "Bolt", "Nobody"}}
        \cup {update(Stub(1, <<"u">>), [content |-> CleanNews, brand |-> "Acme"]),
              update(Stub(1, <<"u">>), [scrape_success |-> TRUE, brand |-> "Acme"]),
              update(Stub(1, <<"u">>), [content |-> CleanNews, scrape_success |-> TRUE])}

AnalyzeIdle ==
    /\ a_pc = "idle" /\ a_articles = <<>> /\ a_i = 0
    /\ a_results = <<>> /\ a_calls = <<>> /\ a_seen = <<>>

AnalyzeInit ==
    /\ a_pc = "loop" /\ a_i = 1
    /\ a_articles \in {<<article>> : article \in AnalyzeInputs}
    /\ a_results = <<>> /\ a_calls = <<>> /\ a_seen = <<>>

\* one pass of "for i, article in enumerate(articles)"; a_calls and a_seen
\* record, per article, the calls made to the backend and what the pass met
AnalyzeStep(Envs) ==
    /\ a_pc = "loop" /\ a_i <= Len(a_articles)
    /\ \E env \in Envs :
          LET analyzed == analyze_article(a_articles[a_i], env)
          IN /\ a_results' = Append(a_results,
                                    IF analyzed.raised
                                    THEN analysis_failed(analyzed.value)
                                    ELSE analyzed.value)
             /\ a_calls' = Append(a_calls, analyzed.calls)
             /\ a_seen' = Append(a_seen, env)
    /\ a_i' = a_i + 1
    /\ UNCHANGED <<a_pc, a_articles>>

AnalyzeReturn ==
    /\ a_pc = "loop" /\ a_i > Len(a_articles)
    /\ a_pc' = "returned"
    /\ UNCHANGED <<a_articles, a_i, a_results, a_calls, a_seen>>

(***************************************************************************)
(* DataManager                                                             *)
(***************************************************************************)
\* Time is counted in ticks of the clock. datetime.now() has a resolution
\* finer than a second; a timedelta of one day is TicksPerDay ticks.
TicksPerSecond == 2
TicksPerDay == 4

\* the clock when the run starts, and the default of storage_config.archive_days
Today == 200
archive_days == 30

\* the formats of strftime and strptime
FileFormat == "%Y%m%d_%H%M%S"
HumanFormat == "%Y-%m-%d %H:%M:%S"

\* dt.strftime(format): both formats end with the seconds and drop the rest
strftime(now, format) == <<format, now - (now % TicksPerSecond)>>

\* datetime.strptime(timestamp, format): ValueError unless the text has the format
strptime(timestamp, format) ==
    IF timestamp[1] = format THEN Return(timestamp[2]) ELSE Raise

\* brand.lower() of the configured brand names
lower_name(brand) ==
    CASE brand = "Acme" -> "acme"
      [] brand = "Core" -> "core"
      [] brand = "Bolt" -> "bolt"
      [] OTHER -> brand

\* a file "<brand>_<timestamp>_raw.csv" of the raw directory
save_raw_data(raw, brand, now) == raw \cup {<<lower_name(brand), now>>}

\* datetime.datetime.now().isoformat(): the date, "T", the time and the
\* fraction of the second
isoformat(now) == <<"iso", now>>

\* the name "news_analysis_<timestamp>.csv" under which save_processed_data
\* writes, and which it returns
SnapshotPath(now) == [file |-> "news_analysis", stamp |-> strftime(now, FileFormat)]
EmptyResult == [file |-> "", stamp |-> <<>>]

\* A directory is the set of its files, a file a name (file, stamp) with the
\* rows written to it; writing under a name that exists replaces the file.
path_of(f) == [file |-> f.file, stamp |-> f.stamp]
write_files(directory, files) ==
    {f \in directory : path_of(f) \notin {path_of(g) : g \in files}} \cup files

\* lines 57-67: the rows get a refresh_timestamp column if none has one
save_processed_data(processed, data, now) ==
    LET rows == IF \E k \in 1..Len(data) : "refresh_timestamp" \in DOMAIN data[k]
                THEN data
                ELSE [k \in 1..Len(data) |->
                         SetKey(data[k], "refresh_timestamp", isoformat(now))]
    IN write_files(processed, {[file |-> "news_analysis",
                                stamp |-> strftime(now, FileFormat),
                                data |-> rows]})

\* lines 124-139: the rows of the file named by the timestamp, looked for in
\* the processed directory and then in the archive; an empty DataFrame when
\* there is no such file or the timestamp does not parse
get_data_by_timestamp(processed, archive, timestamp) ==
    LET dt == strptime(timestamp, HumanFormat)
        named(directory) == {f \in directory : path_of(f) = SnapshotPath(dt.value)}
    IN IF dt.raised THEN <<>>
       ELSE IF named(processed) # {} THEN (CHOOSE f \in named(processed) : TRUE).data
       ELSE IF named(archive) # {} THEN (CHOOSE f \in named(archive) : TRUE).data
       ELSE <<>>

\* the files that archive_old_data moves (lines 152-164): those named
\* news_analysis_*.csv whose timestamp parses and "file_date < cutoff"
old_files(processed, now, days) ==
    {f \in processed :
        /\ f.file = "news_analysis"
        /\ ~strptime(f.stamp, FileFormat).raised
        /\ strptime(f.stamp, FileFormat).value < now - days * TicksPerDay}

\* an archive step that copies the files and leaves them where they were
shutil_copy(processed, archive, files) ==
    [processed |-> processed, archive |-> write_files(archive, files)]

\* shutil.move(src, dst) for each of the files
shutil_move(processed, archive, files) ==
    [processed |-> processed \ files, archive |-> write_files(archive, files)]

(***************************************************************************)
(* AgentOrchestrator.run_full_pipeline                                     *)
(***************************************************************************)
\* the selected_brands argument; <<>> stands for None and for []
SelectedBrands == {<<>>, <<"Ghost">>, <<"Bolt", "Core">>}

\* the configuration and the network of a run
PipelineConfig ==
    [news_sources |-> <<SrcGoogle(TRUE), SrcNewsApi(FALSE), SrcAtom(TRUE)>>,
     default_search_engine |-> "Google News", max_articles |-> MaxCap,
     ddgs_available |-> TRUE]
PipelineNetAnswers ==
    {[status |-> "exception", entries |-> <<>>],
     [status |-> "ok", entries |-> <<E_A, E_b>>],
     [status |-> "ok", entries |-> <<E_c, E_nourl>>],
     [status |-> "ok", entries |-> <<E_nourl>>]}

\* the backend and the libraries of a run: all of them work, or none does
EnvWorking ==
    [summary |-> " Acme reports growth. ", topic |-> "Finance\n",
     subcategory |-> "Earnings", product_line |-> "Rocket",
     relevancy |-> "Yes, it is", sentiment |-> "Positive",
     textblob |-> [raised |-> FALSE, polarity |-> 1],
     sent_tokenize_raises |-> FALSE]
EnvBroken ==
    [summary |-> LlmError, topic |-> LlmError, subcategory |-> LlmError,
     product_line |-> LlmError, relevancy |-> LlmError, sentiment |-> LlmError,
     textblob |-> [raised |-> TRUE, polarity |-> 0],
     sent_tokenize_raises |-> TRUE]
PipelineEnvs == {EnvWorking, EnvBroken}

_get_brands_to_process(selected_brands) ==
    IF selected_brands = <<>> THEN brands_config
    ELSE SelectSeq(brands_config, LAMBDA brand : brand.name \in Range(selected_brands))

\* results[key] = value on a dict that keeps the order of insertion
dict_set(d, key, value) ==
    IF \E i \in 1..Len(d) : d[i].key = key
    THEN [i \in 1..Len(d) |-> IF d[i].key = key
                              THEN [key |-> key, value |-> value] ELSE d[i]]
    ELSE Append(d, [key |-> key, value |-> value])

\* lines 60-64: "article['brand'] = brand_name; all_articles.append(article)"
RECURSIVE flatten_articles(_)
flatten_articles(articles_by_brand) ==
    IF articles_by_brand = <<>> THEN <<>>
    ELSE [k \in 1..Len(Head(articles_by_brand).value) |->
             SetKey(Head(articles_by_brand).value[k], "brand",
                    Head(articles_by_brand).key)]
         \o flatten_articles(Tail(articles_by_brand))

\* an analysis stage that keeps the successful scrapes only
failed_articles_dropped(articles) == <<>>

\* lines 196-197
successful_articles(articles) ==
    SelectSeq(articles, LAMBDA a : Get(a, "scrape_success", FALSE))
failed_articles(articles) ==
    SelectSeq(articles, LAMBDA a : ~Get(a, "scrape_success", FALSE))

\* lines 205-209: "Add dummy analysis for failed articles"
dummy_analysis(articles) ==
    [k \in 1..Len(articles) |->
        update(articles[k], [summary |-> "", topics |-> <<>>,
                             sentiment |-> "neutral", polarity_score |-> 0])]

\* lines 227-229
with_refresh_timestamp(articles, timestamp) ==
    [k \in 1..Len(articles) |-> SetKey(articles[k], "refresh_timestamp", timestamp)]

\* the snapshots left by earlier runs that saved at the given times
earlier_snapshots(times) ==
    UNION {save_processed_data({}, <<[title |-> <<"a">>]>>, t) : t \in times}

DataIdle ==
    d_now = 0 /\ d_raw = {} /\ d_processed = {} /\ d_archive = {} /\ d_ops = <<>>

PipelineIdle ==
    /\ p_pc = "idle" /\ p_selected = <<>> /\ p_brands = <<>> /\ p_i = 0
    /\ p_by_brand = <<>> /\ p_log = <<>> /\ p_articles = <<>> /\ p_handed = <<>>
    /\ p_ret = EmptyResult

\* a call run_full_pipeline(selected_brands); the processed directory holds
\* snapshots of earlier runs, older than, as old as and younger than the cutoff
PipelineInit ==
    /\ p_pc = "start" /\ p_selected \in SelectedBrands /\ p_brands = <<>> /\ p_i = 0
    /\ p_by_brand = <<>> /\ p_log = <<>> /\ p_articles = <<>> /\ p_handed = <<>>
    /\ p_ret = EmptyResult
    /\ d_now = Today /\ d_raw = {} /\ d_archive = {} /\ d_ops = <<>>
    /\ d_processed = earlier_snapshots({Today - archive_days * TicksPerDay - TicksPerSecond,
                                        Today - archive_days * TicksPerDay,
                                        Today - TicksPerSecond})

\* lines 46-54
PipelineStart ==
    /\ p_pc = "start"
    /\ p_brands' = _get_brands_to_process(p_selected)
    /\ IF p_brands' = <<>>
       THEN p_pc' = "returned" /\ p_ret' = EmptyResult /\ p_i' = p_i
       ELSE p_pc' = "fetch" /\ p_i' = 1 /\ p_ret' = p_ret
    /\ UNCHANGED <<p_selected, p_by_brand, p_log, p_articles, p_handed>>
    /\ UNCHANGED <<fVars, sVars, aVars, dVars>>

\* lines 119-122: the next brand is handed to the fetcher
PipelineFetchBrand ==
    /\ p_pc = "fetch" /\ f_pc = "idle" /\ p_i <= Len(p_brands)
    /\ f_pc' = "start"
    /\ f_cfg' = PipelineConfig
    /\ f_brand' = [name |-> p_brands[p_i].name,
                   has_keywords |-> p_brands[p_i].has_keywords,
                   keywords |-> p_brands[p_i].keywords]
    /\ UNCHANGED <<f_kw, f_src, f_all, f_result, f_last, f_queried>>
    /\ UNCHANGED <<pVars, sVars, aVars, dVars>>

\* a fetch stage without the try/except: the exception leaves the pipeline
brand_fetch_failed_unhandled(brand_name) ==
    /\ p_by_brand' = p_by_brand
    /\ p_i' = p_i
    /\ p_pc' = "raised"

\* the except branch of lines 129-132
brand_fetch_failed(brand_name) ==
    /\ p_by_brand' = dict_set(p_by_brand, brand_name, <<>>)
    /\ p_i' = p_i + 1
    /\ p_pc' = p_pc

\* lines 122-132: the fetcher returned or raised; the articles are stored
\* under the brand's name and saved as raw data, which may fail as well. The
\* locals of the call that returned are gone.
PipelineBrandFetched ==
    /\ p_pc = "fetch" /\ f_pc \in {"done", "raised"}
    /\ LET brand_name == p_brands[p_i].name
           articles == f_result.value
       IN \E io_error \in BOOLEAN :
           /\ io_error => (f_pc = "done" /\ articles # <<>>)
           /\ p_log' = Append(p_log, [brand |-> brand_name,
                                      raised |-> f_pc = "raised",
                                      articles |-> IF f_pc = "done" THEN articles ELSE <<>>,
                                      raw_hits |-> Len(f_all),
                                      raw_error |-> io_error])
           /\ IF f_pc = "raised" \/ io_error
              THEN brand_fetch_failed(brand_name) /\ d_raw' = d_raw
              ELSE /\ p_by_brand' = dict_set(p_by_brand, brand_name, articles)
                   /\ d_raw' = IF articles # <<>>
                               THEN save_raw_data(d_raw, brand_name, d_now)
                               ELSE d_raw
                   /\ p_i' = p_i + 1
                   /\ p_pc' = p_pc
    /\ f_pc' = "idle" /\ f_cfg' = NoConfig /\ f_brand' = NoBrand /\ f_kw' = 0
    /\ f_src' = 0 /\ f_all' = <<>> /\ f_result' = Return(<<>>) /\ f_last' = NoQuery
    /\ f_queried' = {}
    /\ UNCHANGED <<p_selected, p_brands, p_articles, p_handed, p_ret>>
    /\ UNCHANGED <<d_now, d_processed, d_archive, d_ops>>
    /\ UNCHANGED <<sVars, aVars>>

\* lines 59-71: the articles are flattened and tagged, and handed to
\* _scrape_articles of an orchestrator with some max_workers
PipelineFlatten ==
    /\ p_pc = "fetch" /\ f_pc = "idle" /\ p_i > Len(p_brands)
    /\ p_articles' = flatten_articles(p_by_brand)
    /\ IF p_articles' = <<>>
       THEN /\ p_pc' = "returned" /\ p_ret' = EmptyResult
            /\ UNCHANGED sVars
       ELSE /\ p_pc' = "scrape" /\ p_ret' = p_ret
            /\ s_pc' = "start"
            /\ s_articles' = p_articles'
            /\ s_max_workers' \in 1..MaxWorkers
            /\ UNCHANGED <<s_chunks, s_fut, s_results, s_ret>>
    /\ UNCHANGED <<p_selected, p_brands, p_i, p_by_brand, p_log, p_handed>>
    /\ UNCHANGED <<fVars, aVars, dVars>>

\* lines 71-74 and 193-202: _scrape_articles returned or raised; the
\* successful articles are handed to the analyzer
PipelineScraped ==
    /\ p_pc = "scrape" /\ s_pc \in {"done", "raised"}
    /\ IF s_pc = "raised"
       THEN /\ p_pc' = "raised"
            /\ UNCHANGED <<p_articles, aVars>>
       ELSE /\ p_pc' = "analyze"
            /\ p_articles' = s_ret.value
            /\ a_pc' = "loop" /\ a_i' = 1
            /\ a_articles' = successful_articles(s_ret.value)
            /\ UNCHANGED <<a_results, a_calls, a_seen>>
    /\ s_pc' = "idle" /\ s_articles' = <<>> /\ s_max_workers' = 0 /\ s_chunks' = <<>>
    /\ s_fut' = <<>> /\ s_results' = <<>> /\ s_ret' = Return(<<>>)
    /\ UNCHANGED <<p_selected, p_brands, p_i, p_by_brand, p_log, p_handed, p_ret>>
    /\ UNCHANGED <<fVars, dVars>>

\* lines 204-214 and 226-229: the failed articles get their dummy analysis,
\* and every article the timestamp of the refresh
PipelineAnalyzed ==
    /\ p_pc = "analyze" /\ a_pc = "returned"
    /\ p_articles' = with_refresh_timestamp(
                         a_results \o dummy_analysis(failed_articles(p_articles)),
                         isoformat(d_now))
    /\ p_pc' = "save"
    /\ a_pc' = "idle" /\ a_articles' = <<>> /\ a_i' = 0
    /\ a_results' = <<>> /\ a_calls' = <<>> /\ a_seen' = <<>>
    /\ UNCHANGED <<p_selected, p_brands, p_i, p_by_brand, p_log, p_handed, p_ret>>
    /\ UNCHANGED <<fVars, sVars, dVars>>

\* line 232: save_processed_data reads the clock again (line 57), writes the
\* snapshot and returns its path (results_path), or raises (the disk is
\* full, the directory is not writable)
PipelineSave ==
    /\ p_pc = "save"
    /\ p_handed' = p_articles
    /\ \E later \in 0..1 : d_now' = d_now + later
    /\ \E io_error \in BOOLEAN :
        IF io_error
        THEN p_pc' = "raised" /\ d_processed' = d_processed /\ p_ret' = p_ret
        ELSE /\ p_pc' = "archive"
             /\ d_processed' = save_processed_data(d_processed, p_articles, d_now')
             /\ p_ret' = SnapshotPath(d_now')
    /\ UNCHANGED <<p_selected, p_brands, p_i, p_by_brand, p_log, p_articles>>
    /\ UNCHANGED <<d_raw, d_archive, d_ops>>
    /\ UNCHANGED <<fVars, sVars, aVars>>

\* lines 235-238 and 79-86: archive_old_data, with the configured
\* storage_config.archive_days (0 or the default), reads the clock and moves
\* the old snapshots, or raises at os.listdir or at the first shutil.move;
\* then the path of the snapshot is returned
PipelineArchive ==
    /\ p_pc = "archive"
    /\ \E later \in 0..1 : d_now' = d_now + later
    /\ \E io_error \in BOOLEAN :
        IF io_error
        THEN /\ p_pc' = "raised"
             /\ UNCHANGED <<d_processed, d_archive>>
        ELSE /\ p_pc' = "returned"
             /\ \E days \in {0, archive_days} :
                   LET moved == shutil_move(d_processed, d_archive,
                                            old_files(d_processed, d_now', days))
                   IN d_processed' = moved.processed /\ d_archive' = moved.archive
    /\ UNCHANGED <<p_selected, p_brands, p_i, p_by_brand, p_log, p_articles, p_handed,
                   p_ret>>
    /\ UNCHANGED <<d_raw, d_ops>>
    /\ UNCHANGED <<fVars, sVars, aVars>>

(***************************************************************************)
(* Calls made on a DataManager                                             *)
(***************************************************************************)
MaxCalls == 3
MaxTicks == 2

\* files of the processed directory that are not snapshots
NotesFile == [file |-> "notes", stamp |-> <<"txt", 0>>, data |-> <<>>]
BackupFile == [file |-> "news_analysis", stamp |-> <<"backup", 0>>, data |-> <<>>]

\* the article lists of a run, before the refresh timestamp is added
DataRuns == {<<[title |-> <<"a">>]>>, <<[title |-> <<"a">>], [title |-> <<"b">>]>>}

\* d_ops is the log of the calls: what was called, when, with which
\* arguments and with which outcome
Call(op) ==
    [op |-> op, now |-> d_now, days |-> 0, raised |-> FALSE, moved |-> {},
     files |-> {}, timestamp |-> <<>>, result |-> <<>>]

\* a data directory with snapshots older than, as old as and younger than the
\* cutoff of the default retention, or an empty one
DataInit ==
    /\ d_now = Today /\ d_raw = {} /\ d_archive = {} /\ d_ops = <<>>
    /\ d_processed \in
          {{}, {NotesFile, BackupFile} \cup
                   earlier_snapshots({Today - archive_days * TicksPerDay - TicksPerSecond,
                                      Today - archive_days * TicksPerDay})}

\* _save_results, lines 226-232: the articles are stamped with the clock in
\* ISO format, then save_processed_data reads the clock again and writes them
DataSaveResults ==
    /\ Len(d_ops) < MaxCalls
    /\ \E articles \in DataRuns, later \in 0..1 :
          LET timestamp == isoformat(d_now)
              stamped == with_refresh_timestamp(articles, timestamp)
          IN /\ d_now + later <= Today + MaxTicks
             /\ d_now' = d_now + later
             /\ d_processed' = save_processed_data(d_processed, stamped, d_now')
             /\ d_ops' = Append(d_ops, [Call("save") EXCEPT !.timestamp = timestamp,
                                                            !.result = stamped])
    /\ UNCHANGED <<d_raw, d_archive>>

\* archive_old_data(days): every old file is moved, or a shutil.move raises
\* after some of them were moved
DataArchive ==
    /\ Len(d_ops) < MaxCalls
    /\ \E days \in {0, archive_days} :
          \E moved \in SUBSET old_files(d_processed, d_now, days) :
              LET after == shutil_move(d_processed, d_archive, moved)
              IN /\ d_processed' = after.processed
                 /\ d_archive' = after.archive
                 /\ d_ops' = Append(d_ops,
                        [Call("archive") EXCEPT
                            !.days = days, !.moved = moved, !.files = d_processed,
                            !.raised = (moved # old_files(d_processed, d_now, days))])
    /\ UNCHANGED <<d_now, d_raw>>

\* get_data_by_timestamp(timestamp) with the refresh timestamp of a run, or
\* with the timestamp of a stored snapshot in the documented format
DataLoad ==
    /\ Len(d_ops) < MaxCalls
    /\ \E timestamp \in
            {d_ops[i].timestamp : i \in {j \in 1..Len(d_ops) : d_ops[j].op = "save"}}
            \cup {<<HumanFormat, f.stamp[2]>> :
                     f \in {g \in d_processed \cup d_archive : g.stamp[1] = FileFormat}} :
          d_ops' = Append(d_ops,
                      [Call("load") EXCEPT
                          !.timestamp = timestamp,
                          !.result = get_data_by_timestamp(d_processed, d_archive,
                                                           timestamp)])
    /\ UNCHANGED <<d_now, d_raw, d_processed, d_archive>>

\* the clock goes on between two calls
DataTick ==
    /\ d_now < Today + MaxTicks
    /\ d_now' = d_now + 1
    /\ UNCHANGED <<d_raw, d_processed, d_archive, d_ops>>

(***************************************************************************)
(* Specifications                                                          *)
(***************************************************************************)
DedupNext == Deduplicate /\ UNCHANGED <<fVars, bVars, sVars, aVars, pVars, dVars>>

InitDedup == DedupInit /\ FetchIdle /\ BatchIdle /\ PoolIdle /\ AnalyzeIdle /\ PipelineIdle /\ DataIdle

SpecDedup == InitDedup /\ [][DedupNext]_vars

FetchFrame == UNCHANGED <<ddVars, bVars, sVars, aVars, pVars, dVars>>

FetchNext ==
    \/ FetchStart /\ FetchFrame
    \/ FetchDefault(NetAnswers) /\ FetchFrame
    \/ FetchOtherSkip /\ FetchFrame
    \/ FetchOtherQuery(NetAnswers) /\ FetchFrame
    \/ FetchReturn /\ FetchFrame

InitFetch == FetchInit /\ DedupIdle /\ BatchIdle /\ PoolIdle /\ AnalyzeIdle /\ PipelineIdle /\ DataIdle

SpecFetch == InitFetch /\ [][FetchNext]_vars

BatchNext == BatchStep /\ UNCHANGED <<ddVars, fVars, sVars, aVars, pVars, dVars>>

InitBatch == BatchInit /\ DedupIdle /\ FetchIdle /\ PoolIdle /\ AnalyzeIdle /\ PipelineIdle /\ DataIdle

SpecBatch == InitBatch /\ [][BatchNext]_vars

PoolFrame == UNCHANGED <<ddVars, fVars, bVars, aVars, pVars, dVars>>

PoolNext ==
    \/ ScrapeSerial(PoolAnswers) /\ PoolFrame
    \/ ScrapeSubmit /\ PoolFrame
    \/ \E c \in 1..MaxChunks : WorkerStart(c) /\ PoolFrame
    \/ \E c \in 1..MaxChunks : WorkerFinish(c, PoolAnswers) /\ PoolFrame
    \/ \E c \in 1..MaxChunks : Collect(c) /\ PoolFrame
    \/ ScrapeReturn /\ PoolFrame

InitPool == PoolInit /\ DedupIdle /\ FetchIdle /\ BatchIdle /\ AnalyzeIdle /\ PipelineIdle /\ DataIdle

SpecPool == InitPool /\ [][PoolNext]_vars

\* ContentAnalyzer.analyze_multiple_articles on one article, with every
\* behaviour of the backend and of the local libraries
AnalyzeFrame == UNCHANGED <<ddVars, fVars, bVars, sVars, pVars, dVars>>

AnalyzeNext ==
    \/ AnalyzeStep(AnalysisEnvs) /\ AnalyzeFrame
    \/ AnalyzeReturn /\ AnalyzeFrame

InitAnalyze == AnalyzeInit /\ DedupIdle /\ FetchIdle /\ BatchIdle /\ PoolIdle /\ PipelineIdle /\ DataIdle

SpecAnalyze == InitAnalyze /\ [][AnalyzeNext]_vars

\* run_full_pipeline: the orchestrator and the agents it calls
DataFrame == UNCHANGED <<ddVars, fVars, bVars, sVars, aVars, pVars>>

DataNext ==
    \/ DataSaveResults /\ DataFrame
    \/ DataArchive /\ DataFrame
    \/ DataLoad /\ DataFrame
    \/ DataTick /\ DataFrame

InitData ==
    DataInit /\ DedupIdle /\ FetchIdle /\ BatchIdle /\ PoolIdle /\ AnalyzeIdle /\ PipelineIdle

SpecData == InitData /\ [][DataNext]_vars

Next ==
    \/ PipelineStart /\ UNCHANGED <<ddVars, bVars>>
    \/ PipelineFetchBrand /\ UNCHANGED <<ddVars, bVars>>
    \/ FetchStart /\ UNCHANGED <<ddVars, bVars, sVars, aVars, pVars, dVars>>
    \/ FetchDefault(PipelineNetAnswers) /\ UNCHANGED <<ddVars, bVars, sVars, aVars, pVars, dVars>>
    \/ FetchOtherSkip /\ UNCHANGED <<ddVars, bVars, sVars, aVars, pVars, dVars>>
    \/ FetchOtherQuery(PipelineNetAnswers) /\ UNCHANGED <<ddVars, bVars, sVars, aVars, pVars, dVars>>
    \/ FetchReturn /\ UNCHANGED <<ddVars, bVars, sVars, aVars, pVars, dVars>>
    \/ PipelineBrandFetched /\ UNCHANGED <<ddVars, bVars>>
    \/ PipelineFlatten /\ UNCHANGED <<ddVars, bVars>>
    \/ ScrapeSerial(PoolAnswers) /\ UNCHANGED <<ddVars, fVars, bVars, aVars, pVars, dVars>>
    \/ ScrapeSubmit /\ UNCHANGED <<ddVars, fVars, bVars, aVars, pVars, dVars>>
    \/ \E c \in 1..MaxChunks : WorkerStart(c) /\ UNCHANGED <<ddVars, fVars, bVars, aVars, pVars, dVars>>
    \/ \E c \in 1..MaxChunks : WorkerFinish(c, PoolAnswers) /\ UNCHANGED <<ddVars, fVars, bVars, aVars, pVars, dVars>>
    \/ \E c \in 1..MaxChunks : Collect(c) /\ UNCHANGED <<ddVars, fVars, bVars, aVars, pVars, dVars>>
    \/ ScrapeReturn /\ UNCHANGED <<ddVars, fVars, bVars, aVars, pVars, dVars>>
    \/ PipelineScraped /\ UNCHANGED <<ddVars, bVars>>
    \/ AnalyzeStep(PipelineEnvs) /\ UNCHANGED <<ddVars, fVars, bVars, sVars, pVars, dVars>>
    \/ AnalyzeReturn /\ UNCHANGED <<ddVars, fVars, bVars, sVars, pVars, dVars>>
    \/ PipelineAnalyzed /\ UNCHANGED <<ddVars, bVars>>
    \/ PipelineSave /\ UNCHANGED <<ddVars, bVars>>
    \/ PipelineArchive /\ UNCHANGED <<ddVars, bVars>>

Init == PipelineInit /\ DedupIdle /\ FetchIdle /\ BatchIdle /\ PoolIdle /\ AnalyzeIdle

Spec == Init /\ [][Next]_vars

\* every call returns or raises in finite time, and the pool runs its tasks
FairSpec == Spec /\ WF_vars(Next)

(***************************************************************************)
(* Claims                                                                  *)
(***************************************************************************)
NormPair(article) == <<dedup_title(article), dedup_url(article)>>

FirstOfItsPair(articles, i) ==
    /\ NormPair(articles[i])[1] # <<>>
    /\ NormPair(articles[i])[2] # <<>>
    /\ \A j \in 1..(i - 1) : NormPair(articles[j]) # NormPair(articles[i])

RECURSIVE KeptByPair(_, _)
KeptByPair(articles, i) ==
    IF i > Len(articles) THEN <<>>
    ELSE (IF FirstOfItsPair(articles, i) THEN <<articles[i]>> ELSE <<>>)
             \o KeptByPair(articles, i + 1)

\* C3: deduplication returns, in first-seen order, exactly the first hit of
\* every distinct pair (lowercased trimmed title, lowercased trimmed url)
\* whose title and url are both non-empty.
C3_OnePerDistinctPair ==
    dd_pc = "done" => dd_out = KeptByPair(dd_in, 1)

\* C4: the list returned by fetch_news_for_brand has at most
\* max_articles_per_brand elements.
C4_FetchWithinCap ==
    f_pc = "done" => Len(f_result.value) <= f_cfg.max_articles

\* a fetch in which the slice cut articles off
C4_Witness ==
    /\ f_pc = "done"
    /\ Len(_deduplicate_articles(f_all)) > f_cfg.max_articles
    /\ Len(f_result.value) = f_cfg.max_articles

\* the last source query gave nothing because it failed: an exception, an
\* HTTP error status, or a source whose type the fetcher does not know
QueryFailed(last, cfg) ==
    /\ last.src # 0
    /\ \/ last.failed
       \/ cfg.news_sources[last.src].type \notin {"rss", "api", "duckduckgo"}

\* C9: a failed source query adds no article and does not abort the fetch:
\* the fetch goes on where an empty answer would have left it (the other
\* sources after a failed default source, the next source after a failed
\* other source), and the only exception that leaves fetch_news_for_brand is
\* the missing 'keywords' key, never a source's failure.
C9_SourceFailureIsZeroResults ==
    /\ [](f_pc = "raised" => ~f_brand.has_keywords)
    /\ [][ (f_queried' # f_queried /\ QueryFailed(f_last', f_cfg)) =>
             /\ f_all' = f_all
             /\ f_last'.got = 0
             /\ IF f_pc = "others"
                THEN f_pc' = "others" /\ f_kw' = f_kw /\ f_src' = f_src + 1
                ELSE IF Len(f_all) < f_cfg.max_articles
                     THEN f_pc' = "others" /\ f_kw' = f_kw /\ f_src' = 1
                     ELSE f_kw' = f_kw + 1 /\ f_pc' \in {"default", "dedup"} ]_vars

\* the last query failed, and the fetch still returned the articles of the
\* earlier ones
C9_Witness ==
    /\ f_pc = "done"
    /\ f_last.failed
    /\ ~f_result.raised
    /\ f_result.value # <<>>

\* C5: _scrape_articles returns exactly the articles it was given, each one
\* once, whatever the number of workers, the order in which the chunks
\* complete and the chunks whose task raised.
C5_PoolPreservesArticles ==
    s_pc = "done" =>
        /\ Len(s_ret.value) = Len(s_articles)
        /\ \A i \in 1..Len(s_articles) :
            Cardinality({j \in 1..Len(s_ret.value) :
                            s_ret.value[j].title = s_articles[i].title}) = 1

\* a run through the pool with more chunks than workers, a chunk whose task
\* raised, and chunks collected out of order
C5_Witness ==
    /\ s_pc = "done"
    /\ Len(s_chunks) > s_max_workers
    /\ \E c \in 1..Len(s_fut) : s_fut[c].outcome.raised
    /\ \E c \in 1..Len(s_fut) : ~s_fut[c].outcome.raised
    /\ s_ret.value[1].title # s_articles[1].title

\* C8: in a batch, an article whose URL answers HTTP 500 ends with
\* scrape_success = False and content = "", and every other article gets the
\* outcome of its own page: the batch returns one result per article, and an
\* article whose page holds an article is scraped successfully.
C8_Http500Isolated ==
    /\ Len(b_task.results) = Len(b_seen)
    /\ b_task.state = "returned" => Len(b_task.results) = Len(b_task.articles)
    /\ \A i \in 1..Len(b_task.results) :
        LET result == b_task.results[i] IN
        /\ result.title = b_task.articles[i].title
        /\ {"content", "scrape_success"} \subseteq DOMAIN result
        /\ (result.url # <<>> /\ b_seen[i] = WebStatus(500, PageBlank)) =>
                (result.scrape_success = FALSE /\ result.content = "")
        /\ (result.url # <<>> /\ b_seen[i] = WebStatus(200, PageArticle)) =>
                (result.scrape_success = TRUE /\ result.content = CleanNews)

\* a batch that returned, with a successful article after one that got 500
C8_Witness ==
    /\ b_task.state = "returned"
    /\ \E i, j \in 1..Len(b_task.results) :
        /\ i < j
        /\ b_task.results[i].url # <<>>
        /\ b_seen[i] = WebStatus(500, PageBlank)
        /\ b_task.results[i].scrape_success = FALSE
        /\ b_task.results[j].scrape_success = TRUE


\* C6: an article whose content is empty (or absent) or whose scrape_success
\* is false (or absent) leaves analyze_article with summary "", topic
\* "Others", subcategory "Others", product_line "None", is_relevant false,
\* sentiment Neutral and polarity_score 0, and no call to the backend was
\* made for it.
C6_GuardSetsDefaultsWithoutCalls ==
    \A i \in 1..Len(a_results) :
        (\/ Get(a_articles[i], "content", "") = ""
         \/ ~Get(a_articles[i], "scrape_success", FALSE)) =>
            /\ a_calls[i] = 0
            /\ a_results[i] = update(a_articles[i],
                   [summary |-> "", topic |-> "Others", subcategory |-> "Others",
                    product_line |-> "None", is_relevant |-> FALSE,
                    sentiment |-> "Neutral", polarity_score |-> 0])

\* an article with content whose scrape failed went through analyze_article
\* while the backend would have answered every prompt
C6_Witness ==
    \E i \in 1..Len(a_results) :
        /\ Get(a_articles[i], "content", "") # ""
        /\ ~Get(a_articles[i], "scrape_success", FALSE)
        /\ ~BackendDown(a_seen[i])
        /\ a_seen[i].summary # LlmError
        /\ a_results[i]["topic"] = "Others"

\* the sentiment label of a lexical polarity
LexicalSentiment(polarity) ==
    IF polarity >= positive_threshold THEN "Positive"
    ELSE IF polarity <= negative_threshold THEN "Negative"
    ELSE "Neutral"

\* C7: when the backend raises on every call made for an article that has
\* content, the resulting article has topic "Others", subcategory "Others",
\* product_line "None", is_relevant false, the sentiment of the lexical
\* polarity, and a non-empty analysis_error.
C7_BackendDownRecordsError ==
    \A i \in 1..Len(a_results) :
        (/\ Get(a_articles[i], "content", "") # ""
         /\ Get(a_articles[i], "scrape_success", FALSE)
         /\ BackendDown(a_seen[i])
            /\ ~a_seen[i].textblob.raised) =>
            /\ a_results[i]["topic"] = "Others"
            /\ a_results[i]["subcategory"] = "Others"
            /\ a_results[i]["product_line"] = "None"
            /\ a_results[i]["is_relevant"] = FALSE
            /\ a_results[i]["sentiment"] = LexicalSentiment(a_seen[i].textblob.polarity)
            /\ "analysis_error" \in DOMAIN a_results[i]
            /\ a_results[i]["analysis_error"] # ""


\* C1: whatever stage fails (a source query, an extraction, a
\* classification, the snapshot save or the archive step), run_full_pipeline
\* returns a value and never lets an exception reach its caller.
C1_NeverPropagates == p_pc # "raised"

ClassificationFields ==
    {"summary", "topic", "subcategory", "product_line", "is_relevant",
     "sentiment", "polarity_score"}

\* C2: every article of the collection handed to persistence has all the
\* classification fields (summary, topic, subcategory, product line,
\* relevance flag, sentiment, polarity score), whether its extraction
\* succeeded, its extraction failed, or its classification failed.
C2_FieldsNeverAbsent ==
    \A k \in 1..Len(p_handed) : ClassificationFields \subseteq DOMAIN p_handed[k]

\* what the fetch stage keeps for the k-th brand it processed
KeptForBrand(k) ==
    LET hits == {i \in 1..Len(p_by_brand) : p_by_brand[i].key = p_log[k].brand}
    IN IF hits = {} THEN <<>> ELSE p_by_brand[CHOOSE i \in hits : TRUE].value

\* the articles kept for the brands from the k-th on, each with its brand's name
RECURSIVE TaggedFrom(_)
TaggedFrom(k) ==
    IF k > Len(p_log) THEN <<>>
    ELSE [j \in 1..Len(KeptForBrand(k)) |->
             [key \in DOMAIN KeptForBrand(k)[j] \cup {"brand"} |->
                 IF key = "brand" THEN p_log[k].brand ELSE KeptForBrand(k)[j][key]]]
         \o TaggedFrom(k + 1)

\* C10: in the fetch stage a failure while fetching one brand yields zero
\* articles for that brand and does not end the run; every selected brand is
\* fetched, in order, and the articles that leave the stage are those kept
\* for each brand, tagged with that brand's own name.
C10_BrandFetchFailureIsolated ==
    /\ p_pc \notin {"idle", "start", "fetch"} => Len(p_log) = Len(p_brands)
    /\ \A k \in 1..Len(p_log) :
          /\ p_log[k].brand = p_brands[k].name
          /\ p_log[k].raised => KeptForBrand(k) = <<>>
          /\ KeptForBrand(k) \in {<<>>, p_log[k].articles}
    /\ p_pc = "scrape" => p_articles = TaggedFrom(1)

\* the fetch of one brand raised, a later brand's fetch returned articles,
\* and the articles have left the fetch stage
C10_Witness ==
    /\ p_pc = "scrape"
    /\ \E k \in 1..Len(p_log) : \E later \in (k + 1)..Len(p_log) :
          /\ p_log[k].raised
          /\ KeptForBrand(later) # <<>>
          /\ \E j \in 1..Len(p_articles) : p_articles[j]["brand"] = p_log[later].brand

\* an article as it left the fetch stage: without the fields the later
\* stages added to it
AsFetched(article) ==
    [key \in {"title", "url", "source", "source_type", "brand"} |-> article[key]]

\* how many articles the fetcher returned for the brands from the k-th on
RECURSIVE ReturnedFrom(_)
ReturnedFrom(k) ==
    IF k > Len(p_log) THEN 0 ELSE Len(p_log[k].articles) + ReturnedFrom(k + 1)

\* C11: the collection handed to persistence contains every article of the
\* flattened fetch result exactly once, the articles whose extraction or
\* classification failed included, and it has no more articles than the
\* fetcher returned after deduplication.
C11_NothingDroppedMidRun ==
    p_pc \in {"archive", "returned"} /\ p_handed # <<>> =>
        LET all_articles == flatten_articles(p_by_brand) IN
        /\ Len(p_handed) = Len(all_articles)
        /\ \A i \in 1..Len(all_articles) :
              Cardinality({k \in 1..Len(p_handed) :
                              AsFetched(p_handed[k]) = all_articles[i]}) = 1
        /\ Len(p_handed) <= ReturnedFrom(1)

\* a snapshot was saved that holds an article whose extraction failed, one
\* whose classification failed and one that was classified
C11_Witness ==
    /\ p_pc = "archive"
    /\ \E i, j, k \in 1..Len(p_handed) :
          /\ ~p_handed[i]["scrape_success"]
          /\ "analysis_error" \in DOMAIN p_handed[j]
          /\ p_handed[k]["scrape_success"]
          /\ "analysis_error" \notin DOMAIN p_handed[k]

\* C12: every selected brand for which the sources returned at least one raw
\* hit contributes at least one record to the collection the run hands to
\* persistence.
C12_BrandWithHitsContributes ==
    p_pc \in {"archive", "returned"} /\ p_handed # <<>> =>
        \A k \in 1..Len(p_log) :
            p_log[k].raw_hits > 0 =>
                \E j \in 1..Len(p_handed) : p_handed[j]["brand"] = p_log[k].brand

\* the latest two calls were archive_old_data(days) with the same days, and
\* the first of them returned
ArchivedTwice ==
    /\ Len(d_ops) >= 2
    /\ d_ops[Len(d_ops) - 1].op = "archive" /\ ~d_ops[Len(d_ops) - 1].raised
    /\ d_ops[Len(d_ops)].op = "archive"
    /\ d_ops[Len(d_ops)].days = d_ops[Len(d_ops) - 1].days

\* between the latest two calls the clock took a snapshot of the processed
\* directory past the age limit
AgedBetween ==
    LET first == d_ops[Len(d_ops) - 1]
        second == d_ops[Len(d_ops)]
    IN \E f \in second.files :
          /\ f.file = "news_analysis" /\ f.stamp[1] = FileFormat
          /\ f.stamp[2] >= first.now - first.days * TicksPerDay
          /\ f.stamp[2] < second.now - second.days * TicksPerDay

\* C13 as stated: calling archive_old_data(days) twice in succession, with no
\* snapshot saved between the calls, makes the second call a no-op: it raises
\* no error, moves no file and leaves the directories as they were.
C13_SecondArchiveIsNoOp ==
    ArchivedTwice =>
        /\ ~d_ops[Len(d_ops)].raised
        /\ d_ops[Len(d_ops)].moved = {}
        /\ d_processed = d_ops[Len(d_ops)].files

\* C13: calling archive_old_data(days) twice in succession, with no snapshot
\* saved between the calls and no stored snapshot reaching the age limit
\* between them, makes the second call a no-op: it raises no error, moves no
\* file and leaves the directories as they were.
C13_SecondArchiveIsNoOpUnlessAged ==
    ArchivedTwice /\ ~AgedBetween =>
        /\ ~d_ops[Len(d_ops)].raised
        /\ d_ops[Len(d_ops)].moved = {}
        /\ d_processed = d_ops[Len(d_ops)].files

\* the first call moved a snapshot, the clock went on, and the second call
\* found nothing to move
C13_Witness ==
    /\ ArchivedTwice /\ ~AgedBetween
    /\ d_ops[Len(d_ops) - 1].moved # {}
    /\ d_ops[Len(d_ops)].now > d_ops[Len(d_ops) - 1].now
    /\ d_ops[Len(d_ops)].moved = {}

\* C20: the refresh timestamp stamped on the articles of a run is the key of
\* that run's snapshot: get_data_by_timestamp called with the refresh
\* timestamp that the articles carry returns exactly the articles of that run.
C20_RefreshTimestampIsKey ==
    \A i, j \in 1..Len(d_ops) :
        (/\ i < j
         /\ d_ops[i].op = "save" /\ d_ops[j].op = "load"
         /\ d_ops[j].timestamp = d_ops[i].result[1]["refresh_timestamp"]) =>
            d_ops[j].result = d_ops[i].result

\* C14: within fetch_news_for_brand, once the accumulated article count has
\* reached max_articles_per_brand, no further source query is issued for any
\* remaining source or any remaining keyword.
C14_NoQueryAfterCap ==
    [][Len(f_all) >= f_cfg.max_articles => f_queried' = f_queried]_vars

\* C15: when the cap truncates the deduplicated list in fetch_news_for_brand,
\* the default source's hits are favored: no article from a non-default
\* source is kept in the output while an article from the default source is
\* cut off.
C15_DefaultSourceFavored ==
    f_pc = "done" =>
        LET unique_articles == _deduplicate_articles(f_all)
            kept == 1..Len(f_result.value)
            cut == (Len(f_result.value) + 1)..Len(unique_articles)
        IN ~ \E i \in kept, j \in cut :
                /\ f_result.value[i].source # f_cfg.default_search_engine
                /\ unique_articles[j].source = f_cfg.default_search_engine

\* the chunks one after the other
RECURSIVE ChunksJoined(_)
ChunksJoined(chunks) ==
    IF chunks = <<>> THEN <<>> ELSE Head(chunks) \o ChunksJoined(Tail(chunks))

\* C16: when the article list is above the serial threshold, _scrape_articles
\* partitions it into exactly max_workers contiguous chunks that together
\* cover the list in order, for every list length and every max_workers >= 1.
C16_ExactlyMaxWorkersChunks ==
    s_pc = "collect" =>
        /\ Len(s_chunks) = s_max_workers
        /\ ChunksJoined(s_chunks) = s_articles

\* C17: if the extraction of a chunk raises, every article of that chunk
\* appears in the extraction result with scrape_success false and content
\* "", and the articles of every other chunk keep the outcome of their own
\* extraction.
C17_FailedChunkMarkedOthersKept ==
    s_pc = "done" =>
        \A c \in 1..Len(s_chunks) :
            IF s_fut[c].outcome.raised
            THEN \A k \in 1..Len(s_chunks[c]) :
                    \E j \in 1..Len(s_ret.value) :
                        /\ s_ret.value[j]["title"] = s_chunks[c][k]["title"]
                        /\ Get(s_ret.value[j], "content", "absent") = ""
                        /\ Get(s_ret.value[j], "scrape_success", TRUE) = FALSE
            ELSE \A k \in 1..Len(s_fut[c].outcome.value) :
                    \E j \in 1..Len(s_ret.value) :
                        s_ret.value[j] = s_fut[c].outcome.value[k]

\* the extraction of one chunk raised while another chunk's extraction
\* returned an article with its content
C17_Witness ==
    /\ s_pc = "done"
    /\ \E c, d \in 1..Len(s_chunks) :
          /\ s_fut[c].outcome.raised
          /\ ~s_fut[d].outcome.raised
          /\ \E k \in 1..Len(s_fut[d].outcome.value) :
                s_fut[d].outcome.value[k]["scrape_success"]

\* the prompts of one analyze_article call on which the backend raised
FailedSubCalls(env) ==
    {call \in {"summary", "topic", "subcategory", "product_line", "relevancy",
               "sentiment"} : env[call] = LlmError}

\* C18: for an article with content and a configured brand, the failure of
\* any one classification sub-call (summary, topic, subcategory, product
\* line, relevance or sentiment) degrades only that sub-call's field to its
\* fallback; every other field keeps the value produced by its own call.
C18_OneFailureDegradesOneField ==
    \A i \in 1..Len(a_results) :
        LET article == a_articles[i]
            env == a_seen[i]
            content == Get(article, "content", "")
            brand == find_brand(Get(article, "brand", ""))
            result == a_results[i]
        IN (/\ content # "" /\ Get(article, "scrape_success", FALSE)
            /\ brand # 0
            /\ Cardinality(FailedSubCalls(env)) = 1
            /\ ~env.textblob.raised) =>
               /\ result["summary"] =
                     IF env.summary # LlmError THEN strip_answer(env.summary)
                     ELSE IF Len(sent_tokenize(content)) > 3
                          THEN join_first_three(content)
                          ELSE first_300_and_dots(content)
               /\ result["topic"] =
                     _classify_topic(content, brands_config[brand].categories, env).value
               /\ result["subcategory"] =
                     _classify_subcategory(content, brands_config[brand].subcategories,
                                           env).value
               /\ result["product_line"] =
                     _identify_product_line(content, brands_config[brand].product_lines,
                                            env).value
               /\ result["is_relevant"] =
                     _check_relevancy(content, brands_config[brand].name, env).value
               /\ result["sentiment"] =
                     IF env.sentiment = LlmError
                     THEN LexicalSentiment(env.textblob.polarity)
                     ELSE _analyze_sentiment(content, brands_config[brand].name, env).value[1]

\* C19: after analyze_article, for every backend response including a
\* failure, topic is a case-exact member of the brand's categories or
\* "Others", subcategory is a case-exact member of the brand's subcategories
\* or "Others", and product_line is a case-exact member of the brand's
\* product lines or "None".
C19_ClosedVocabulary ==
    \A i \in 1..Len(a_results) :
        LET configured == {b \in Range(brands_config) :
                              b.name = Get(a_articles[i], "brand", "")}
        IN /\ a_results[i]["topic"] \in
                  {"Others"} \cup UNION {Range(b.categories) : b \in configured}
           /\ a_results[i]["subcategory"] \in
                  {"Others"} \cup UNION {Range(b.subcategories) : b \in configured}
           /\ a_results[i]["product_line"] \in
                  {"None"} \cup UNION {Range(b.product_lines) : b \in configured}

\* the backend answered the topic prompt of an article of Acme with a
\* category in another case and the product line prompt with a product line
C19_Witness ==
    \E i \in 1..Len(a_results) :
        /\ Get(a_articles[i], "content", "") # ""
        /\ Get(a_articles[i], "scrape_success", FALSE)
        /\ Get(a_articles[i], "brand", "") = "Acme"
        /\ a_seen[i].topic = "finance"
        /\ a_seen[i].product_line = "Rocket"
        /\ a_seen[i].summary # LlmError
        /\ a_results[i]["topic"] = "Others"
        /\ a_results[i]["product_line"] = "Rocket"

\* the places in the list of the articles of chunk c
ChunkPlaces(c) ==
    {p \in 1..Len(s_articles) : \E k \in 1..Len(s_chunks[c]) : s_articles[p] = s_chunks[c][k]}

\* a worker's call on its chunk ends in this step
WorkerEnds ==
    \E c \in 1..Len(s_fut) :
        /\ c \in 1..Len(s_fut')
        /\ s_fut[c].state = "running" /\ s_fut'[c].state = "finished"

\* C21: during the parallel extraction no article and no result list is
\* written by two different workers: the chunks are pairwise disjoint, each
\* worker writes only the articles of its own chunk and returns its own
\* result list, and only the coordinating thread appends to the merged list.
C21_WorkersWriteDisjoint ==
    /\ [](\A c, d \in 1..Len(s_fut) :
             /\ s_fut[c].wrote \subseteq ChunkPlaces(c)
             /\ c # d => /\ ChunkPlaces(c) \cap ChunkPlaces(d) = {}
                         /\ s_fut[c].wrote \cap s_fut[d].wrote = {})
    /\ [][WorkerEnds => s_results' = s_results]_vars

\* one worker has written the articles of its chunk while another worker is
\* still running and the merged list already holds a collected chunk
C21_Witness ==
    \E c, d, e \in 1..Len(s_fut) :
        /\ s_fut[c].state = "finished" /\ s_fut[c].wrote # {}
        /\ s_fut[d].state = "running"
        /\ s_fut[e].state = "collected" /\ s_results # <<>>

C23_SentimentIsConfiguredLabel ==
    \A k \in 1..Len(p_handed) :
        /\ p_handed[k]["sentiment"] \in {"Positive", "Neutral", "Negative"}
        /\ ~p_handed[k]["scrape_success"] => p_handed[k]["sentiment"] = "Neutral"

\* C24: when the summary call to the backend fails, _generate_summary
\* returns the first three sentences of the content whenever sentence
\* splitting is available, and returns the first 300 characters plus an
\* ellipsis only when sentence splitting is unavailable.
C24_SummaryFallback ==
    \A i \in 1..Len(a_seen) :
        LET content == Get(a_articles[i], "content", "")
            summary == _generate_summary(content, a_seen[i])
        IN (a_seen[i].summary = LlmError /\ content # "") =>
              /\ ~summary.raised
              /\ summary.value = IF a_seen[i].sent_tokenize_raises
                                 THEN first_300_and_dots(content)
                                 ELSE join_first_three(content)

\* C25: if every network, backend and file-system call returns or raises in
\* finite time, every invocation of run_full_pipeline eventually returns,
\* with a snapshot path or with the explicit empty result.
C25_RunEventuallyReturns == <>(p_pc = "returned")

\* C26: a brand whose fetch_news_for_brand call succeeded passes all of its
\* fetched articles on to the extraction stage, even when saving that
\* brand's raw-data file fails.
C26_RawSaveFailureKeepsArticles ==
    \A k \in 1..Len(p_log) :
        ~p_log[k].raised => KeptForBrand(k) = p_log[k].articles

\* C27: if fetch_news_for_brand returns fewer than max_articles_per_brand
\* articles, then every enabled source was queried for every keyword of the
\* brand: the search never stops early because of duplicate or discarded
\* hits while the deduplicated count is still below the cap.
C27_BelowCapMeansAllQueried ==
    f_pc = "done" /\ Len(f_result.value) < f_cfg.max_articles =>
        \A kw \in 1..Len(f_brand.keywords), s \in 1..Len(f_cfg.news_sources) :
            f_cfg.news_sources[s].enabled => <<kw, s>> \in f_queried

\* C28: after scrape_article, scrape_success = true implies that content is
\* a non-empty string: a page from which no text could be extracted is never
\* reported as a successful scrape.
C28_SuccessMeansContent ==
    \A i \in 1..Len(b_task.results) :
        b_task.results[i].scrape_success => b_task.results[i].content # ""

\* C29: the archive step of a run never moves the snapshot that the same run
\* has just saved: for every configured retention window of 0 days or more,
\* the path returned by run_full_pipeline names a file that is still in the
\* processed directory when the run returns.
C29_ReturnedSnapshotStillProcessed ==
    p_pc = "returned" /\ p_ret # EmptyResult =>
        \E f \in d_processed : path_of(f) = p_ret

\* C30: every run that saves articles produces its own snapshot: whatever the
\* time between two runs, the later save never overwrites the snapshot of the
\* earlier one, so the rows saved by every run are still the rows of a stored
\* snapshot (in the processed directory or in the archive) afterwards.
C30_EverySaveKeepsItsSnapshot ==
    \A i \in 1..Len(d_ops) :
        d_ops[i].op = "save" =>
            \E f \in d_processed \cup d_archive :
                f.file = "news_analysis" /\ f.data = d_ops[i].result

=============================================================================
